---- MODULE Spec2Model ----
(***************************************************************************)
(* EqDialog (src/eq-dialog.js): triggers on a page are bound to native     *)
(* <dialog> elements that the library creates, appends to the document and *)
(* shows with showModal(); a document-wide keydown listener keeps Tab      *)
(* inside the open dialog.                                                 *)
(*                                                                         *)
(* Representation.                                                         *)
(*  - A JavaScript string is a sequence of tokens.  The separators         *)
(*    "." "?" "#" ":" ";" "," "/" and the literals "-dialog-", "video/"    *)
(*    and "{{src}}" are tokens of their own, every other token is a        *)
(*    maximal run of other characters, so two strings are equal exactly    *)
(*    when their token sequences are.  <<>> is the empty string; a missing *)
(*    attribute (null / undefined) is <<>> as well, because the code only  *)
(*    ever tests these values for truthiness.                              *)
(*  - dialog_type is kept as a TLA+ string, "" standing for `false`.       *)
(*  - The document body is the sequence doc of nodes in document order:    *)
(*    the host page's own elements first, then the dialogs in the order    *)
(*    they were appended.  A node's content is the sequence of elements    *)
(*    its innerHTML holds.                                                 *)
(*  - Inline styles (eq-dialog.js 187-190) do not influence any state      *)
(*    modelled here and are left out.                                      *)
(***************************************************************************)
EXTENDS Integers, Sequences, FiniteSets, TLC

VARIABLES
    settings,   \* this.settings: the options the instance was constructed with
    triggers,   \* the elements matching settings.selector, in document order
    doc,        \* document.body: host elements, then the dialogs appended
    stack,      \* the browser's top layer: dialogs shown modally, oldest first
    focus,      \* document.activeElement
    scan,       \* position of init()'s forEach (0: init() is not running)
    last        \* the handler that ran last, its arguments, result and diagnostics

vars == <<settings, triggers, doc, stack, focus, scan, last>>

-----------------------------------------------------------------------------
(* Bounds of the model *)

\* dialogs the library may create before the model stops creating more
MaxDialogs == 2

-----------------------------------------------------------------------------
(* Strings *)

Max(S) == CHOOSE x \in S : \A y \in S : y <= x
Min(S) == CHOOSE x \in S : \A y \in S : x <= y

\* the `i` flag of the regular expressions: matching ignores letter case
Lower(tok) ==
    CASE tok = "PNG" -> "png"
      [] tok = "MOV" -> "mov"
      [] tok = "PDF" -> "pdf"
      [] tok = "DATA" -> "data"
      [] tok = "IMAGE" -> "image"
      [] OTHER -> tok

ImageExt == {"jpe", "jpg", "jpeg", "gif", "png", "bmp", "webp", "svg", "ico"}
VideoExt == {"mp4", "mov", "ogg", "webm"}
PdfExt == {"pdf"}

\* /\.(ext)((\?|#).*)?$/i
EndsWithExt(s, exts) ==
    \E i \in 1..(Len(s) - 1) :
        /\ s[i] = "."
        /\ Lower(s[i + 1]) \in exts
        /\ (i + 1 = Len(s) \/ s[i + 2] \in {"?", "#"})

\* a token made of characters of the class [a-z0-9+\/=] (any case) only
DataChars(tok) == tok \notin {".", "?", "#", ":", ";", ",", "-dialog-", "{{src}}", "video/"}

\* /^data:image\/[a-z0-9+\/=]*,/i
MatchDataImage(s) ==
    /\ Len(s) >= 5
    /\ Lower(s[1]) = "data" /\ s[2] = ":" /\ Lower(s[3]) = "image" /\ s[4] = "/"
    /\ \E k \in 5..Len(s) :
        /\ s[k] = ","
        /\ \A j \in 5..(k - 1) : DataChars(s[j])

\* InferType with the test for '#' moved to the front of the chain
InferTypeInlineFirst(src) ==
    IF src # <<>> /\ src[1] = "#" THEN "inline"
    ELSE IF MatchDataImage(src) \/ EndsWithExt(src, ImageExt) THEN "image"
    ELSE IF EndsWithExt(src, VideoExt) THEN "video"
    ELSE IF EndsWithExt(src, PdfExt) THEN "iframe"
    ELSE ""

\* the if/else-if chain that infers dialog_type from src; "" when nothing matches
InferType(src) ==
    IF MatchDataImage(src) \/ EndsWithExt(src, ImageExt) THEN "image"
    ELSE IF EndsWithExt(src, VideoExt) THEN "video"
    ELSE IF EndsWithExt(src, PdfExt) THEN "iframe"
    ELSE IF src # <<>> /\ src[1] = "#" THEN "inline"
    ELSE ""

\* src.substring(1), for a src whose first token is a single character
Substring1(src) == IF src = <<>> THEN <<>> ELSE Tail(src)

\* 'video/' + /(?:\.([^.]+))?$/.exec(src)[1]: what follows the last dot, or undefined
VideoFormat(src) ==
    LET dots == {i \in 1..Len(src) : src[i] = "."}
    IN  IF dots = {} \/ Max(dots \cup {0}) = Len(src)
        THEN <<"video/", "undefined">>
        ELSE <<"video/">> \o SubSeq(src, Max(dots) + 1, Len(src))

-----------------------------------------------------------------------------
(* Elements *)

\* an element inside a node's content; hidden: in the tree but not rendered
El(tag, src, aux, hidden) == [tag |-> tag, src |-> src, aux |-> aux, hidden |-> hidden]

NoFocus == [n |-> 0, k |-> 0]          \* focus is on no element of doc (body, browser UI)
FocusOn(n, k) == [n |-> n, k |-> k]    \* k = 0: the node itself

\* a host-page element carrying an id
HostEl(id, content) ==
    [tag |-> "div", id |-> id, attached |-> TRUE, content |-> content,
     open |-> FALSE, type |-> "", ident |-> <<>>, prev |-> NoFocus]

IsDialog(d, i) == d[i].tag = "dialog"
Dialogs(d) == {i \in 1..Len(d) : IsDialog(d, i)}
OpenDialogs(d) == {i \in Dialogs(d) : d[i].attached /\ d[i].open}

\* document.getElementById(id): the first attached node with that id, 0 for null
GetElementById(d, id) ==
    LET hits == {i \in 1..Len(d) : d[i].attached /\ d[i].id = id}
    IN  IF id = <<>> \/ hits = {} THEN 0 ELSE Min(hits)

-----------------------------------------------------------------------------
(* create_dialog and generate_dialog_id *)

RECURSIVE IdFrom(_, _, _)
\* the while loop of generate_dialog_id, entered with the given index
IdFrom(d, dialog_type, index) ==
    LET id == <<dialog_type, "-dialog-", ToString(index)>>
    IN  IF GetElementById(d, id) # 0 THEN IdFrom(d, dialog_type, index + 1) ELSE id

\* generate_dialog_id as a counter of the dialogs created so far, not looking
\* at the ids in the document
generate_dialog_idCounter(d, dialog_type) ==
    <<dialog_type, "-dialog-", ToString(Cardinality(Dialogs(d)))>>

generate_dialog_id(d, dialog_type) == IdFrom(d, dialog_type, 0)

\* template_close_button with {{close_btn_txt}} replaced
CloseButtonHtml(close_button_text) ==
    <<El("form", <<>>, <<>>, FALSE), El("button", <<>>, close_button_text, FALSE)>>

ImageHtml(params) == <<El("img", params.src, params.img_alt, FALSE)>>

\* template_video after the two String.replace calls: replace() with a string
\* pattern substitutes the first {{src}} only, the link keeps the placeholder;
\* what is inside <video> is fallback content and is not rendered
VideoHtml(params) ==
    <<El("video", <<>>, <<>>, FALSE),
      El("source", params.src, VideoFormat(params.src), TRUE),
      El("a", <<"{{src}}">>, <<>>, TRUE)>>

IframeHtml(params) == <<El("iframe", params.src, <<>>, FALSE)>>

\* inline_div.innerHTML (inline_div = 0 is null)
InnerHtml(d, inline_div) == IF inline_div = 0 THEN <<>> ELSE d[inline_div].content

\* inline_div.remove()
RemoveNode(d, i) == IF i = 0 THEN d ELSE [d EXCEPT ![i].attached = FALSE]

\* inline_div.removeAttribute('id')
RemoveId(d, i) == IF i = 0 THEN d ELSE [d EXCEPT ![i].id = <<>>]

\* ConsumeInline ignoring remove_inline_content: the id is stripped, always
ConsumeInlineStripOnly(d, inline_div) == RemoveId(d, inline_div)

\* remove the target inline div or remove its id, by settings.remove_inline_content
ConsumeInline(d, inline_div) ==
    IF settings.remove_inline_content THEN RemoveNode(d, inline_div)
    ELSE RemoveId(d, inline_div)

\* InlineNotFound without the test of inline_div: the branch never gives up
InlineFoundUnchecked(d, params) == FALSE

\* the inline branch gives up: no element carries params.dialog_id
InlineNotFound(d, params) ==
    params.dialog_type = "inline" /\ GetElementById(d, params.dialog_id) = 0

\* NewDialog with the open attribute set on the element it builds
NewDialogShown(params, dialog_content) ==
    [tag |-> "dialog", id |-> <<>>, attached |-> TRUE, content |-> dialog_content,
     open |-> TRUE, type |-> params.dialog_type, ident |-> params.dialog_id,
     prev |-> NoFocus]

\* the <dialog> element create_dialog builds and appends: it gets the class
\* eq-dialog-wrapper and its content, and no id attribute; type and ident
\* record the params it was built from
NewDialog(params, dialog_content) ==
    [tag |-> "dialog", id |-> <<>>, attached |-> TRUE, content |-> dialog_content,
     open |-> FALSE, type |-> params.dialog_type, ident |-> params.dialog_id,
     prev |-> NoFocus]

\* GiveUp after the element was appended: the empty dialog stays in the page
GiveUpAppended(d, params) ==
    [ret |-> 0, doc |-> Append(d, NewDialog(params, <<>>)), errs |-> <<"NotFound">>]

\* console.error and `return false` of the inline branch: the element built
\* so far was never appended, the document is as it was
GiveUp(d, params) == [ret |-> 0, doc |-> d, errs |-> <<"NotFound">>]

\* create_dialog(params) on document d: ret is the index of the new dialog in
\* the resulting document, 0 for `false`
create_dialog(d, params) ==
    IF InlineNotFound(d, params)
    THEN GiveUp(d, params)
    ELSE
        LET inline_div == GetElementById(d, params.dialog_id)
            dialog_content ==
                (IF settings.show_close_button
                    THEN CloseButtonHtml(params.close_button_text) ELSE <<>>)
                \o (IF params.dialog_type = "inline" THEN InnerHtml(d, inline_div) ELSE <<>>)
                \o (IF params.dialog_type = "image" THEN ImageHtml(params) ELSE <<>>)
                \o (IF params.dialog_type = "video" THEN VideoHtml(params) ELSE <<>>)
                \o (IF params.dialog_type = "iframe" THEN IframeHtml(params) ELSE <<>>)
            d1 == IF params.dialog_type = "inline" THEN ConsumeInline(d, inline_div) ELSE d
        IN  [ret |-> Len(d1) + 1,
             doc |-> Append(d1, NewDialog(params, dialog_content)),
             errs |-> <<>>]

-----------------------------------------------------------------------------
(* The browser: showModal, dismissal, focus *)

\* what sequential focus navigation stops at: rendered interactive elements
TabStopTags == {"button", "input", "select", "textarea", "iframe", "a", "video"}

TabStops(d, i) ==
    SelectSeq([k \in 1..Len(d[i].content) |-> k],
              LAMBDA k : d[i].content[k].tag \in TabStopTags /\ ~d[i].content[k].hidden)

\* element.focus(): moves focus when the element is rendered and focusable
CanFocus(d, f) ==
    /\ f.n \in 1..Len(d) /\ d[f.n].attached
    /\ \/ f.k = 0 /\ IsDialog(d, f.n) /\ d[f.n].open
       \/ /\ f.k \in 1..Len(d[f.n].content)
          /\ IsDialog(d, f.n) /\ d[f.n].open
          /\ d[f.n].content[f.k].tag \in TabStopTags
          /\ ~d[f.n].content[f.k].hidden

\* the dialog focusing steps: the autofocus close button when there is one,
\* else the first focusable element, else the dialog itself
FocusDelegate(d, i) ==
    LET auto == {k \in 1..Len(d[i].content) : d[i].content[k].tag = "button"}
        stops == TabStops(d, i)
    IN  IF auto # {} THEN FocusOn(i, Min(auto))
        ELSE IF stops # <<>> THEN FocusOn(i, stops[1])
        ELSE FocusOn(i, 0)

\* dlg.showModal() in browser state b = [doc, stack, focus]: nothing when the
\* dialog is already shown modally
showModal(b, dlg) ==
    IF b.doc[dlg].open THEN b
    ELSE LET d1 == [b.doc EXCEPT ![dlg].open = TRUE, ![dlg].prev = b.focus]
         IN  [doc |-> d1, stack |-> Append(b.stack, dlg), focus |-> FocusDelegate(d1, dlg)]

Browser == [doc |-> doc, stack |-> stack, focus |-> focus]

-----------------------------------------------------------------------------
(* The page and the inputs *)

PhotoPng == <<"photo", ".", "png">>
ClipMp4 == <<"clip", ".", "mp4">>
DocPdf == <<"doc", ".", "pdf">>
PageHtml == <<"page", ".", "html">>
Details == <<"details">>
Missing == <<"missing">>
Video0 == <<"video", "-dialog-", "0">>
CloseDialog == <<"Close dialog">>      \* eq_dialog_defaults.close_button_text
Undefined == <<"undefined">>           \* `undefined` turned into text

\* a trigger element: its href, data-target, data-type, data-img-alt and
\* data-close-btn-txt attributes, and the dialogs its click listeners show
Trigger(href, target, type) ==
    [href |-> href, target |-> target, type |-> type, imgAlt |-> <<>>,
     closeBtnTxt |-> <<>>, listeners |-> <<>>]

TriggerPool ==
    { Trigger(PhotoPng, <<>>, ""),                \* <a href="photo.png">
      Trigger(<<>>, PhotoPng, ""),                \* <button data-target="photo.png">
      Trigger(ClipMp4, <<>>, ""),                 \* <a href="clip.mp4">
      Trigger(<<>>, <<"#">> \o Details, ""),      \* <button data-target="#details">
      Trigger(<<"#">> \o Details, <<>>, ""),      \* <a href="#details">
      Trigger(<<"#">> \o Missing, <<>>, ""),      \* <a href="#missing">
      Trigger(<<>>, <<>>, "") }                   \* <button> without a source

\* the pages: two triggers each
TriggerPages == {<<a, b>> : a \in TriggerPool, b \in TriggerPool}

\* the host page's own elements: the fragment #details, and an element that
\* carries an id of the form the library generates
HostPage ==
    <<HostEl(Details, <<El("p", <<>>, <<>>, FALSE), El("input", <<>>, <<>>, FALSE),
                        El("a", PageHtml, <<>>, FALSE)>>),
      HostEl(Video0, <<El("p", <<>>, <<>>, FALSE)>>)>>

\* the calls of open(dialog_type, source) and the keys pressed
OpenTypes == {"inline", "image", "video", "iframe"}
OpenCalls ==
    {<<dialog_type, <<>>>> : dialog_type \in OpenTypes}
    \cup {<<"inline", Details>>, <<"inline", Missing>>, <<"image", PhotoPng>>,
          <<"video", ClipMp4>>, <<"iframe", DocPdf>>}
KeyInputs == {<<"Tab", FALSE>>, <<"Tab", TRUE>>, <<"a", FALSE>>}

NoOp ==
    [op |-> "none", t |-> 0, type |-> "", source |-> <<>>, id |-> <<>>, dlg |-> 0,
     errs |-> <<>>, key |-> "", shift |-> FALSE, prevented |-> FALSE]

Init ==
    /\ settings \in [remove_inline_content : BOOLEAN, show_close_button : BOOLEAN,
                     close_button_text : {CloseDialog}]
    /\ triggers \in TriggerPages
    /\ doc = HostPage
    /\ stack = <<>>
    /\ focus = NoFocus
    /\ scan = 0
    /\ last = NoOp

-----------------------------------------------------------------------------
(* init() *)

\* src = href ? href : el.dataset.target ? el.dataset.target : false
TriggerSrc(el) == IF el.href # <<>> THEN el.href ELSE el.target

\* dialog_type after the inference block; "" when the callback has returned
TriggerType(el) == IF el.type # "" THEN el.type ELSE InferType(TriggerSrc(el))

\* dialog_id = dialog_type === 'inline' && src ? src.substring(1) : generate_dialog_id
TriggerId(d, dialog_type, src) ==
    IF dialog_type = "inline" /\ src # <<>> THEN Substring1(src)
    ELSE generate_dialog_id(d, dialog_type)

\* init_el that wires nothing and creates nothing: the dialog is left for the
\* click to build
init_elLazy(d, el, t) ==
    [el |-> el, doc |-> d,
     last |-> [NoOp EXCEPT !.op = "init_each", !.t = t, !.source = TriggerSrc(el),
                           !.type = TriggerType(el)]]

\* the forEach callback of init() on the trigger element el at position t:
\* the new trigger, document and the record of what it did
init_el(d, el, t) ==
    LET src == TriggerSrc(el)
        dialog_type == TriggerType(el)
        rec == [NoOp EXCEPT !.op = "init_each", !.t = t, !.source = src,
                            !.type = dialog_type]
    IN  IF src = <<>> THEN [el |-> el, doc |-> d, last |-> [rec EXCEPT !.errs = <<"NoSource">>]]
        ELSE IF dialog_type = "" THEN [el |-> el, doc |-> d, last |-> [rec EXCEPT !.errs = <<"NoType">>]]
        ELSE
            LET dialog_id == TriggerId(d, dialog_type, src)
                r == create_dialog(d, [dialog_type |-> dialog_type, dialog_id |-> dialog_id,
                        src |-> src, img_alt |-> el.imgAlt,
                        close_button_text |-> IF el.closeBtnTxt # <<>> THEN el.closeBtnTxt
                                              ELSE settings.close_button_text])
                rec2 == [rec EXCEPT !.id = dialog_id, !.dlg = r.ret, !.errs = r.errs]
            IN  IF r.ret = 0 THEN [el |-> el, doc |-> r.doc, last |-> rec2]
                ELSE [el |-> [el EXCEPT !.href = IF el.href # <<>> THEN <<"#">> \o dialog_id
                                                 ELSE el.href,
                                        !.listeners = Append(el.listeners, r.ret)],
                      doc |-> r.doc, last |-> rec2]

\* the forEach callback of init() on trigger t of the page
init_each(d, t) == init_el(d, triggers[t], t)

RECURSIVE ScanDoc(_, _)
\* the document init() leaves when its forEach continues at trigger t
ScanDoc(d, t) == IF t > Len(triggers) THEN d ELSE ScanDoc(init_each(d, t).doc, t + 1)

\* the model creates no dialog beyond MaxDialogs: a handler runs only when
\* there is room for the dialogs it creates
Room(n) == Cardinality(Dialogs(doc)) + n <= MaxDialogs

\* init() up to the forEach: querySelectorAll(settings.selector)
InitScan ==
    /\ scan = 0
    /\ Cardinality(Dialogs(ScanDoc(doc, 1))) <= MaxDialogs
    /\ scan' = 1
    /\ last' = [NoOp EXCEPT !.op = "init"]
    /\ UNCHANGED <<settings, triggers, doc, stack, focus>>

InitEach ==
    /\ scan \in 1..Len(triggers)
    /\ LET r == init_each(doc, scan)
       IN  /\ triggers' = [triggers EXCEPT ![scan] = r.el]
           /\ doc' = r.doc
           /\ last' = r.last
    /\ scan' = IF scan = Len(triggers) THEN 0 ELSE scan + 1
    /\ UNCHANGED <<settings, stack, focus>>

\* ClickListener that builds a dialog of its own, a copy of dlg, and shows it
ClickListenerCreates(b, dlg) ==
    LET d1 == Append(b.doc, [b.doc[dlg] EXCEPT !.open = FALSE])
    IN  showModal([b EXCEPT !.doc = d1], Len(d1))

\* the listener init() adds to a trigger: () => { dlg.showModal(); }
ClickListener(b, dlg) == showModal(b, dlg)

RECURSIVE ShowAll(_, _)
\* the click listeners of a trigger, in the order they were added
ShowAll(b, listeners) ==
    IF listeners = <<>> THEN b
    ELSE ShowAll(ClickListener(b, Head(listeners)), Tail(listeners))

\* the user clicks trigger t; with a dialog shown modally the rest of the page
\* is inert and takes no clicks
Click(t) ==
    /\ scan = 0
    /\ stack = <<>>
    /\ LET b == ShowAll(Browser, triggers[t].listeners)
       IN  /\ doc' = b.doc
           /\ stack' = b.stack
           /\ focus' = b.focus
    /\ last' = [NoOp EXCEPT !.op = "click", !.t = t]
    /\ UNCHANGED <<settings, triggers, scan>>

-----------------------------------------------------------------------------
(* open() *)

\* dialog_type === 'inline' && !source
InlineGuard(dialog_type, source) == dialog_type = "inline" /\ source = <<>>

\* MediaGuard without its last operand: a video without a source passes
MediaGuardNoVideo(dialog_type, source) ==
    \/ dialog_type = "image"
    \/ dialog_type = "iframe"

\* dialog_type === 'image' || dialog_type === 'iframe' || dialog_type === 'video' && !source
MediaGuard(dialog_type, source) ==
    \/ dialog_type = "image"
    \/ dialog_type = "iframe"
    \/ (dialog_type = "video" /\ source = <<>>)

\* open(dialog_type, source, img_alt) in browser state b
open(b, dialog_type, source, img_alt) ==
    LET rec == [NoOp EXCEPT !.op = "open", !.type = dialog_type, !.source = source]
    IN  IF InlineGuard(dialog_type, source)
        THEN [b |-> b, last |-> [rec EXCEPT !.errs = <<"InlineNoTarget">>]]
        ELSE IF MediaGuard(dialog_type, source)
        THEN [b |-> b, last |-> [rec EXCEPT !.errs = <<"MediaNoSource">>]]
        ELSE
            LET dialog_id == IF dialog_type = "inline" THEN source
                             ELSE generate_dialog_id(b.doc, dialog_type)
                r == create_dialog(b.doc, [dialog_type |-> dialog_type,
                        dialog_id |-> dialog_id,
                        src |-> IF dialog_type = "inline" THEN <<>> ELSE source,
                        img_alt |-> img_alt, close_button_text |-> Undefined])
                rec2 == [rec EXCEPT !.id = dialog_id, !.dlg = r.ret, !.errs = r.errs]
            IN  IF r.ret = 0 THEN [b |-> [b EXCEPT !.doc = r.doc], last |-> rec2]
                ELSE [b |-> showModal([b EXCEPT !.doc = r.doc], r.ret), last |-> rec2]

Open(dialog_type, source) ==
    /\ scan = 0
    /\ Room(1)
    /\ LET r == open(Browser, dialog_type, source, <<>>)
       IN  /\ doc' = r.b.doc
           /\ stack' = r.b.stack
           /\ focus' = r.b.focus
           /\ last' = r.last
    /\ UNCHANGED <<settings, triggers, scan>>

-----------------------------------------------------------------------------
(* Dismissal and the keydown listener *)

\* the user dismisses the topmost dialog (its method="dialog" close button, or
\* Escape); focus returns to the element focused before it was shown
Close ==
    /\ scan = 0
    /\ stack # <<>>
    /\ LET dlg == stack[Len(stack)]
           d1 == [doc EXCEPT ![dlg].open = FALSE]
       IN  /\ doc' = d1
           /\ stack' = SubSeq(stack, 1, Len(stack) - 1)
           /\ focus' = IF CanFocus(d1, doc[dlg].prev) THEN doc[dlg].prev ELSE NoFocus
    /\ last' = [NoOp EXCEPT !.op = "close", !.dlg = stack[Len(stack)]]
    /\ UNCHANGED <<settings, triggers, scan>>

\* 'button,input,select,textarea,iframe,area,a,*[tabindex="0"]'
FocusableTags == {"button", "input", "select", "textarea", "iframe", "area", "a"}

\* dialog.querySelectorAll(...) as the positions of the matches in the content
Focusables(d, dialog) ==
    SelectSeq([k \in 1..Len(d[dialog].content) |-> k],
              LAMBDA k : d[dialog].content[k].tag \in FocusableTags)

NullEl == [n |-> -1, k |-> -1]     \* item() out of range: null

\* document.querySelector('dialog[open]'): the first open dialog, 0 for null
QueryOpenDialog(d) == IF OpenDialogs(d) = {} THEN 0 ELSE Min(OpenDialogs(d))

\* the keydown listener without the comparisons with document.activeElement:
\* every Tab wraps around
keydownUnguarded(b, key, shift) ==
    LET dialog == QueryOpenDialog(b.doc)
        dialog_focusables == IF dialog = 0 THEN <<>> ELSE Focusables(b.doc, dialog)
        first_focus == IF dialog_focusables = <<>> THEN NullEl
                       ELSE FocusOn(dialog, dialog_focusables[1])
        last_focus == IF dialog_focusables = <<>> THEN NullEl
                      ELSE FocusOn(dialog, dialog_focusables[Len(dialog_focusables)])
        to(el) == IF CanFocus(b.doc, el) THEN el ELSE b.focus
    IN  IF dialog = 0 THEN [focus |-> b.focus, prevented |-> FALSE, threw |-> FALSE]
        ELSE IF ~shift /\ key = "Tab"
        THEN [focus |-> to(first_focus), prevented |-> TRUE, threw |-> first_focus = NullEl]
        ELSE IF shift /\ key = "Tab"
        THEN [focus |-> to(last_focus), prevented |-> TRUE, threw |-> last_focus = NullEl]
        ELSE [focus |-> b.focus, prevented |-> FALSE, threw |-> FALSE]

\* the keydown listener: the element focused afterwards, whether
\* preventDefault was called, and whether the listener threw (focus() on null)
keydown(b, key, shift) ==
    LET dialog == QueryOpenDialog(b.doc)
        dialog_focusables == IF dialog = 0 THEN <<>> ELSE Focusables(b.doc, dialog)
        first_focus == IF dialog_focusables = <<>> THEN NullEl
                       ELSE FocusOn(dialog, dialog_focusables[1])
        last_focus == IF dialog_focusables = <<>> THEN NullEl
                      ELSE FocusOn(dialog, dialog_focusables[Len(dialog_focusables)])
        to(el) == IF CanFocus(b.doc, el) THEN el ELSE b.focus
    IN  IF dialog = 0 THEN [focus |-> b.focus, prevented |-> FALSE, threw |-> FALSE]
        ELSE IF ~shift /\ key = "Tab" /\ b.focus = last_focus
        THEN [focus |-> to(first_focus), prevented |-> TRUE, threw |-> first_focus = NullEl]
        ELSE IF shift /\ key = "Tab" /\ b.focus = first_focus
        THEN [focus |-> to(last_focus), prevented |-> TRUE, threw |-> last_focus = NullEl]
        ELSE [focus |-> b.focus, prevented |-> FALSE, threw |-> FALSE]

\* the browser's own Tab navigation: the next or previous tab stop of the
\* topmost modal dialog; past either end focus leaves the page for the
\* browser's own controls
DefaultTab(b, shift) ==
    IF b.stack = <<>> THEN b.focus
    ELSE
        LET top == b.stack[Len(b.stack)]
            stops == TabStops(b.doc, top)
            at == {j \in 1..Len(stops) : b.focus = FocusOn(top, stops[j])}
        IN  IF stops = <<>> THEN NoFocus
            ELSE IF at = {} THEN (IF shift THEN FocusOn(top, stops[Len(stops)])
                                  ELSE FocusOn(top, stops[1]))
            ELSE LET j == Min(at)
                 IN  IF shift THEN (IF j = 1 THEN NoFocus ELSE FocusOn(top, stops[j - 1]))
                     ELSE (IF j = Len(stops) THEN NoFocus ELSE FocusOn(top, stops[j + 1]))

\* a key goes down: the listener runs, then the default action unless cancelled
KeyDown(key, shift) ==
    /\ scan = 0
    /\ LET r == keydown(Browser, key, shift)
       IN  /\ focus' = IF ~r.prevented /\ key = "Tab"
                       THEN DefaultTab([Browser EXCEPT !.focus = r.focus], shift)
                       ELSE r.focus
           /\ last' = [NoOp EXCEPT !.op = "keydown", !.key = key, !.shift = shift,
                                   !.prevented = r.prevented]
    /\ UNCHANGED <<settings, triggers, doc, stack, scan>>

-----------------------------------------------------------------------------

Next ==
    \/ InitScan
    \/ InitEach
    \/ \E t \in 1..Len(triggers) : Click(t)
    \/ \E c \in OpenCalls : Open(c[1], c[2])
    \/ Close
    \/ \E c \in KeyInputs : KeyDown(c[1], c[2])

Spec == Init /\ [][Next]_vars

-----------------------------------------------------------------------------
(* Properties *)

\* the step is a materialization (init()'s callback or open()) that reached
\* create_dialog with the given kind
Materializes(dialog_type) ==
    /\ last'.op \in {"init_each", "open"}
    /\ last'.type = dialog_type
    /\ last'.id # <<>>

\* the dialogs the step appended to the document
Created == Dialogs(doc') \ Dialogs(doc)

\* C1: no two dialogs the library created carry the same identity, and
\* generate_dialog_id never returns again the identity it gave to a media
\* dialog that has been created since.
ClaimC1 ==
    /\ \A i, j \in Dialogs(doc) : i # j => doc[i].ident # doc[j].ident
    /\ \A i \in Dialogs(doc) :
        doc[i].type # "inline" => generate_dialog_id(doc, doc[i].type) # doc[i].ident

\* C2: the identity of every dialog names exactly one element of the document,
\* the dialog itself, and the "#identity" that init() wrote into a hyperlink
\* trigger refers to the dialog bound to that trigger.
ClaimC2 ==
    /\ \A i \in Dialogs(doc) :
        /\ GetElementById(doc, doc[i].ident) = i
        /\ Cardinality({j \in 1..Len(doc) : doc[j].attached /\ doc[j].id = doc[i].ident}) = 1
    /\ \A t \in 1..Len(triggers) :
        (triggers[t].listeners # <<>> /\ triggers[t].href # <<>>) =>
            \E k \in 1..Len(triggers[t].listeners) :
                GetElementById(doc, Substring1(triggers[t].href)) = triggers[t].listeners[k]

\* node j keeps its content, its id and its place in the document over the step
Unaltered(j) ==
    /\ doc'[j].content = doc[j].content
    /\ doc'[j].id = doc[j].id
    /\ doc'[j].attached = doc[j].attached

\* the step adds no node and alters none
DocumentKept == Len(doc') = Len(doc) /\ \A j \in 1..Len(doc) : Unaltered(j)

\* C3: materializing an inline identity that a dialog was already built for
\* returns that dialog, creates no second one and neither copies nor strips
\* nor removes anything again.
ClaimC3 ==
    [][\A i \in Dialogs(doc) :
        (Materializes("inline") /\ doc[i].type = "inline" /\ last'.id = doc[i].ident)
            => (last'.dlg = i /\ DocumentKept)]_vars

\* the content of dialog i shows the source: the media element pointing at it,
\* or the fragment's content for an inline dialog
ShowsSource(d, i, dialog_type, source, fragment) ==
    IF dialog_type = "inline"
    THEN /\ Len(d[i].content) >= Len(fragment)
         /\ SubSeq(d[i].content, Len(d[i].content) - Len(fragment) + 1,
                   Len(d[i].content)) = fragment
    ELSE \E k \in 1..Len(d[i].content) :
            /\ d[i].content[k].src = source
            /\ d[i].content[k].tag =
                (CASE dialog_type = "image" -> "img"
                   [] dialog_type = "video" -> "source"
                   [] OTHER -> "iframe")

\* C4: open(kind, source) with a non-empty source (for inline: the id of an
\* element of the document) creates a dialog with that content and leaves it open.
ClaimC4 ==
    [][(/\ last'.op = "open"
        /\ last'.type \in OpenTypes
        /\ last'.source # <<>>
        /\ last'.type = "inline" => GetElementById(doc, last'.source) # 0)
       => (/\ last'.dlg \in Created
           /\ doc'[last'.dlg].open
           /\ ShowsSource(doc', last'.dlg, last'.type, last'.source,
                          InnerHtml(doc, GetElementById(doc, last'.source))))]_vars

\* C5: open(kind, source) with an empty source reports an error, adds no
\* dialog, opens none and leaves the document as it was, for every kind.
ClaimC5 ==
    [][(last'.op = "open" /\ last'.source = <<>>)
       => (/\ last'.errs # <<>>
           /\ last'.dlg = 0
           /\ doc' = doc
           /\ stack' = stack
           /\ focus' = focus)]_vars

\* open('video', '') has just been rejected
WitnessC5 ==
    /\ last.op = "open" /\ last.type = "video" /\ last.source = <<>>
    /\ last.errs = <<"MediaNoSource">>

\* C6: materializing an inline identity that no element of the document
\* carries, from init() or from open(), reports the missing element, binds
\* nothing, and leaves the document, the open dialogs and the triggers as they were.
ClaimC6 ==
    [][(Materializes("inline") /\ GetElementById(doc, last'.id) = 0)
       => (/\ last'.errs = <<"NotFound">>
           /\ last'.dlg = 0
           /\ doc' = doc
           /\ stack' = stack
           /\ focus' = focus
           /\ triggers' = triggers)]_vars

\* init() has skipped the trigger for #missing and bound the other one, and
\* open('inline', 'missing') has just been rejected
WitnessC6 ==
    /\ last.op = "open" /\ last.type = "inline" /\ last.id = Missing
    /\ last.errs = <<"NotFound">>
    /\ triggers[1].href = <<"#">> \o Missing /\ triggers[1].listeners = <<>>
    /\ triggers[2].listeners # <<>>

\* C7: a step that builds an inline dialog from fragment f puts the fragment's
\* content into the dialog and then either removes f, its id untouched
\* (remove_inline_content), or keeps f in the document without its id;
\* nothing else in the document changes.
ClaimC7 ==
    [][(Materializes("inline") /\ last'.dlg # 0)
       => LET f == GetElementById(doc, last'.id)
          IN  /\ f # 0
              /\ last'.dlg \in Created
              /\ ShowsSource(doc', last'.dlg, "inline", last'.id, doc[f].content)
              /\ doc'[f].content = doc[f].content
              /\ IF settings.remove_inline_content
                    THEN ~doc'[f].attached /\ doc'[f].id = doc[f].id
                    ELSE doc'[f].attached /\ doc'[f].id = <<>>
              /\ \A j \in 1..Len(doc) : j # f => Unaltered(j)]_vars

\* with remove_inline_content set, a dialog has been built from #details and
\* the fragment is gone from the document
WitnessC7 ==
    /\ settings.remove_inline_content
    /\ last.op \in {"init_each", "open"} /\ last.type = "inline" /\ last.dlg # 0
    /\ ~doc[1].attached /\ doc[1].id = Details
    /\ doc[last.dlg].ident = Details

\* C8: at most one dialog is open at any time.
ClaimC8 == Cardinality(OpenDialogs(doc)) <= 1

\* C9: init() opens nothing, the dialogs it creates are closed, and whenever a
\* dialog's open state changes or a dialog appears open, the step is a
\* trigger click, an open() call or a dismissal.
ClaimC9 ==
    [][/\ last'.op \in {"init", "init_each"} =>
            /\ stack' = stack
            /\ \A i \in Dialogs(doc) : doc'[i].open = doc[i].open
            /\ \A i \in Created : ~doc'[i].open
       /\ (\E i \in Dialogs(doc') :
                \/ i \in Dialogs(doc) /\ doc'[i].open # doc[i].open
                \/ i \in Created /\ doc'[i].open)
            => last'.op \in {"click", "open", "close"}]_vars

\* init() has run to its end and the dialog its last callback created is closed
WitnessC9 ==
    /\ scan = 0 /\ last.op = "init_each" /\ last.dlg # 0
    /\ ~doc[last.dlg].open
    /\ triggers[2].listeners = <<last.dlg>>

\* C10: with dialog i open and its focusable elements in order [A, ..., Z]:
\* Tab with focus on Z is cancelled and moves focus to A, Shift+Tab with focus
\* on A is cancelled and moves focus to Z.
ClaimC10 ==
    [][(last'.op = "keydown" /\ last'.key = "Tab")
       => \A i \in OpenDialogs(doc) :
            LET stops == TabStops(doc, i)
                A == FocusOn(i, stops[1])
                Z == FocusOn(i, stops[Len(stops)])
            IN  stops # <<>> =>
                    /\ (~last'.shift /\ focus = Z) => (last'.prevented /\ focus' = A)
                    /\ (last'.shift /\ focus = A) => (last'.prevented /\ focus' = Z)]_vars

\* focus is on one of the elements of dialog i that take focus
FocusWithin(d, f, i) ==
    f.n = i /\ \E j \in 1..Len(TabStops(d, i)) : f.k = TabStops(d, i)[j]

\* C11: a Tab or Shift+Tab key-down with focus on a focusable element of an
\* open dialog leaves focus on a focusable element of that dialog.
ClaimC11 ==
    [][(last'.op = "keydown" /\ last'.key = "Tab")
       => \A i \in OpenDialogs(doc) :
            FocusWithin(doc, focus, i) => FocusWithin(doc', focus', i)]_vars

\* C12: while the topmost open dialog has no focusable element, the keydown
\* listener does nothing for any key: it does not throw, does not cancel the
\* default action and does not move focus.
ClaimC12 ==
    (stack # <<>> /\ Focusables(doc, stack[Len(stack)]) = <<>>)
        => \A key \in {"Tab", "a"}, shift \in BOOLEAN :
            keydown(Browser, key, shift) =
                [focus |-> focus, prevented |-> FALSE, threw |-> FALSE]

\* Tab has gone down while a dialog without a focusable element was open
WitnessC12 ==
    /\ stack # <<>> /\ Focusables(doc, stack[Len(stack)]) = <<>>
    /\ last.op = "keydown" /\ last.key = "Tab" /\ ~last.prevented

-----------------------------------------------------------------------------
(* Resolution of a trigger's source: init() over pages of one trigger *)

\* sources put together from a name, an extension and a query or fragment
SourcePrefixes == {<<"a">>, <<"#", "a">>}
SourceExts == {"png", "PNG", "jpeg", "gif", "mp4", "MOV", "webm", "pdf", "PDF", "html"}
SourceSuffixes == {<<>>, <<"?", "v">>, <<"#", "x">>}
SourceOf(prefix, ext, suffix) == prefix \o <<".", ext>> \o suffix

Mp4ThenPng == <<"a", ".", "mp4", "?", "x", ".", "png">>     \* a.mp4?x.png
PdfThenMp4 == <<"a", ".", "pdf", "#", "x", ".", "mp4">>     \* a.pdf#x.mp4

\* values of data-type and of open()'s dialog_type, one of them no kind the
\* library knows
ExplicitTypes == {"image", "video", "iframe", "inline", "audio"}
ResolveCalls == {<<type, src>> : type \in {"video", "audio"}, src \in {<<>>, ClipMp4}}

ResolveSources ==
    {SourceOf(p, e, x) : p \in SourcePrefixes, e \in SourceExts, x \in SourceSuffixes}
    \cup SourcePrefixes \cup {Mp4ThenPng, PdfThenMp4}

\* the host page with a second fragment, #a
ResolvePage == Append(HostPage, HostEl(<<"a">>, <<El("p", <<>>, <<>>, FALSE)>>))

InitResolve ==
    /\ settings \in [remove_inline_content : BOOLEAN, show_close_button : BOOLEAN,
                     close_button_text : {CloseDialog}]
    /\ \/ \E src \in ResolveSources :
            triggers \in {<<Trigger(src, <<>>, "")>>, <<Trigger(<<>>, src, "")>>}
       \/ \E src \in {<<"c", ".", "mp4">>, <<"#", "a">>}, type \in ExplicitTypes :
            triggers = <<Trigger(src, <<>>, type)>>
    /\ doc = ResolvePage
    /\ stack = <<>>
    /\ focus = NoFocus
    /\ scan = 0
    /\ last = NoOp

NextResolve ==
    \/ InitScan
    \/ InitEach
    \/ \E t \in 1..Len(triggers) : Click(t)
    \/ \E c \in ResolveCalls : Open(c[1], c[2])

SpecResolve == InitResolve /\ [][NextResolve]_vars

\* the kind an extension stands for: image, video, document (`iframe`)
KindOfExt(ext) ==
    CASE ext \in {"png", "PNG", "jpeg", "gif"} -> "image"
      [] ext \in {"mp4", "MOV", "webm"} -> "video"
      [] ext \in {"pdf", "PDF"} -> "iframe"
      [] OTHER -> ""

\* C13: init() gives a trigger without data-type the kind of the media
\* extension its source ends in, in any letter case, with or without a query
\* or fragment and also when the source begins with '#'; image goes before
\* video, video before document, and a source beginning with '#' that matches
\* no media pattern is inline; create_dialog gets the source as it was.
ClaimC13 ==
    [][(last'.op = "init_each" /\ triggers[last'.t].type = "") =>
        LET src == TriggerSrc(triggers[last'.t])
        IN  /\ last'.source = src
            /\ \A p \in SourcePrefixes, e \in SourceExts, x \in SourceSuffixes :
                src = SourceOf(p, e, x) =>
                    /\ KindOfExt(e) # "" =>
                        /\ last'.type = KindOfExt(e)
                        /\ last'.dlg \in Created
                        /\ ShowsSource(doc', last'.dlg, KindOfExt(e), src, <<>>)
                    /\ (KindOfExt(e) = "" /\ p[1] = "#") => last'.type = "inline"
                    /\ (KindOfExt(e) = "" /\ p[1] # "#") =>
                        (last'.type = "" /\ last'.errs = <<"NoType">>)
            /\ src = <<"#", "a">> => last'.type = "inline"
            /\ src = Mp4ThenPng => last'.type = "image"
            /\ src = PdfThenMp4 => last'.type = "video"]_vars

\* init() has made an image dialog for the trigger whose source was #a.PNG?v
WitnessC13 ==
    /\ scan = 0 /\ last.op = "init_each" /\ last.type = "image"
    /\ last.source = SourceOf(<<"#", "a">>, "PNG", <<"?", "v">>)
    /\ last.dlg # 0
    /\ \E k \in 1..Len(doc[last.dlg].content) :
        doc[last.dlg].content[k].src = last.source

\* C14: a materialization whose kind is none of image, video, iframe (the
\* embedded document) and inline, from a trigger's data-type or from open(),
\* creates no dialog and opens none.
ClaimC14 ==
    [][(last'.op \in {"init_each", "open"} /\ last'.type \notin OpenTypes)
       => (Created = {} /\ stack' = stack)]_vars

-----------------------------------------------------------------------------
(* Skipped triggers *)

\* pages of two triggers, among them one whose kind cannot be determined
SkipPool == TriggerPool \cup {Trigger(PageHtml, <<>>, "")}

InitSkip ==
    /\ settings \in [remove_inline_content : BOOLEAN, show_close_button : BOOLEAN,
                     close_button_text : {CloseDialog}]
    /\ triggers \in {<<a, b>> : a \in SkipPool, b \in SkipPool}
    /\ doc = HostPage
    /\ stack = <<>>
    /\ focus = NoFocus
    /\ scan = 0
    /\ last = NoOp

NextSkip ==
    \/ InitScan
    \/ InitEach
    \/ \E t \in 1..Len(triggers) : Click(t)
    \/ Close

SpecSkip == InitSkip /\ [][NextSkip]_vars

RECURSIVE ScanAll(_, _)
\* init()'s forEach over the trigger elements els from document d: the
\* document it leaves, the elements as it leaves them, one error list each
ScanAll(d, els) ==
    IF els = <<>> THEN [doc |-> d, els |-> <<>>, errs |-> <<>>]
    ELSE LET r == init_el(d, Head(els), 0)
             rest == ScanAll(r.doc, Tail(els))
         IN  [doc |-> rest.doc, els |-> <<r.el>> \o rest.els,
              errs |-> <<r.last.errs>> \o rest.errs]

RECURSIVE Keep(_, _)
\* the elements of seq whose flag is set, in order
Keep(seq, flags) ==
    IF seq = <<>> THEN <<>>
    ELSE (IF Head(flags) THEN <<Head(seq)>> ELSE <<>>) \o Keep(Tail(seq), Tail(flags))

\* C15: a callback of init() that reports an error (no source, no kind,
\* fragment not found) leaves the trigger, the document and the open dialogs
\* as they were and the scan goes on to the next trigger; and a whole scan
\* leaves the same document and the same other triggers as a scan of the page
\* without the triggers that fail.
ClaimC15 ==
    [][/\ (last'.op = "init_each" /\ last'.errs # <<>>) =>
            /\ triggers' = triggers /\ doc' = doc /\ stack' = stack /\ focus' = focus
            /\ last'.dlg = 0
            /\ scan' = IF scan = Len(triggers) THEN 0 ELSE scan + 1
       /\ last'.op = "init" =>
            LET all == ScanAll(doc, triggers)
                ok == [i \in 1..Len(triggers) |-> all.errs[i] = <<>>]
                others == ScanAll(doc, Keep(triggers, ok))
            IN  /\ others.doc = all.doc
                /\ others.els = Keep(all.els, ok)
                /\ \A i \in 1..Len(triggers) : ~ok[i] => all.els[i] = triggers[i]
                /\ ScanDoc(doc, 1) = all.doc]_vars

\* init() has skipped the first trigger, whose kind is unknown, and bound the
\* second
WitnessC15 ==
    /\ scan = 0 /\ last.op = "init_each" /\ last.t = 2 /\ last.dlg # 0
    /\ triggers[1] = Trigger(PageHtml, <<>>, "")
    /\ triggers[2].listeners = <<last.dlg>>

-----------------------------------------------------------------------------
(* Generated ids *)

\* ids of the form the library generates, carried by elements of the host page
IdPool ==
    <<<<"video", "-dialog-", "0">>, <<"video", "-dialog-", "1">>,
      <<"video", "-dialog-", "2">>, <<"image", "-dialog-", "0">>,
      <<"image", "-dialog-", "1">>, <<"iframe", "-dialog-", "1">>>>

RECURSIVE IdPage(_, _)
\* the host page whose elements carry the ids of IdPool at the positions in S
IdPage(S, i) ==
    IF i > Len(IdPool) THEN <<>>
    ELSE (IF i \in S THEN <<HostEl(IdPool[i], <<El("p", <<>>, <<>>, FALSE)>>)>> ELSE <<>>)
         \o IdPage(S, i + 1)

\* one trigger: a video, an image, or a fragment whose id has the generated form
IdTriggers ==
    { Trigger(ClipMp4, <<>>, ""), Trigger(<<>>, PhotoPng, ""),
      Trigger(<<"#">> \o IdPool[1], <<>>, ""), Trigger(<<"#">> \o IdPool[2], <<>>, "") }

IdCalls == {<<"video", ClipMp4>>, <<"image", PhotoPng>>, <<"iframe", DocPdf>>}

InitIds ==
    /\ settings \in [remove_inline_content : BOOLEAN, show_close_button : {TRUE},
                     close_button_text : {CloseDialog}]
    /\ triggers \in {<<t>> : t \in IdTriggers}
    /\ doc \in {IdPage(S, 1) : S \in SUBSET (1..Len(IdPool))}
    /\ stack = <<>>
    /\ focus = NoFocus
    /\ scan = 0
    /\ last = NoOp

NextIds ==
    \/ InitScan
    \/ InitEach
    \/ \E t \in 1..Len(triggers) : Click(t)
    \/ \E c \in IdCalls : Open(c[1], c[2])
    \/ Close

SpecIds == InitIds /\ [][NextIds]_vars

\* no element of the document d carries the id {kind}-dialog-{n}
FreeId(d, kind, n) ==
    \A i \in 1..Len(d) : d[i].attached => d[i].id # <<kind, "-dialog-", ToString(n)>>

\* the smallest n whose id is free: one of 0..Len(d), d has Len(d) elements
LeastFree(d, kind) ==
    CHOOSE n \in 0..Len(d) : FreeId(d, kind, n) /\ \A m \in 0..(n - 1) : ~FreeId(d, kind, m)

\* C16: in every document generate_dialog_id(kind) is {kind}-dialog-{n} for
\* the smallest n >= 0 such that no element of the document has that id, and
\* that is the id init() and open() give a dialog that is not inline.
ClaimC16 ==
    [][/\ \A kind \in {"image", "video", "iframe", "audio"} :
            generate_dialog_id(doc, kind)
                = <<kind, "-dialog-", ToString(LeastFree(doc, kind))>>
       /\ (last'.op \in {"init_each", "open"} /\ last'.type \in {"image", "video", "iframe"}
           /\ last'.errs = <<>>)
            => last'.id = <<last'.type, "-dialog-", ToString(LeastFree(doc, last'.type))>>]_vars

\* open('video', 'clip.mp4') got video-dialog-1 in a page whose element
\* #video-dialog-0 is still there after a fragment #video-dialog-1 was consumed
WitnessC16 ==
    /\ last.op = "open" /\ last.type = "video" /\ last.dlg # 0
    /\ last.id = <<"video", "-dialog-", "1">>
    /\ GetElementById(doc, <<"video", "-dialog-", "0">>) # 0
    /\ triggers[1].href = <<"#">> \o IdPool[2] /\ triggers[1].listeners # <<>>
    /\ GetElementById(doc, <<"video", "-dialog-", "2">>) # 0

-----------------------------------------------------------------------------
(* A second init() *)

\* C17: init()'s callback on a trigger an earlier init() bound reports no
\* error, creates no dialog and resolves the identity of the dialog the
\* trigger was bound to.
ClaimC17 ==
    [][(last'.op = "init_each" /\ triggers[last'.t].listeners # <<>>)
        => /\ last'.errs = <<>>
           /\ Created = {}
           /\ last'.id = doc[triggers[last'.t].listeners[1]].ident]_vars

-----------------------------------------------------------------------------
(* The video template *)

\* C18: a video dialog created for a source that ends in a video extension,
\* with or without a query or fragment after it, holds a <source> whose type
\* is "video/" and that extension and whose src is the source, and a fallback
\* link whose href is the source.
ClaimC18 ==
    [][\A p \in SourcePrefixes, e \in SourceExts, x \in SourceSuffixes :
        (/\ Materializes("video") /\ last'.dlg \in Created
         /\ last'.source = SourceOf(p, e, x) /\ Lower(e) \in VideoExt)
            => LET content == doc'[last'.dlg].content
               IN  /\ \E k \in 1..Len(content) :
                        /\ content[k].tag = "source"
                        /\ content[k].src = last'.source
                        /\ content[k].aux = <<"video/", e>>
                   /\ \E k \in 1..Len(content) :
                        content[k].tag = "a" /\ content[k].src = last'.source]_vars

-----------------------------------------------------------------------------
(* When dialogs are created *)

\* C19 as stated: init() creates no dialog and alters no fragment.
LazyC19 ==
    [][last'.op \in {"init", "init_each"} => (Created = {} /\ DocumentKept)]_vars

\* C19: every callback of init() that reports no error creates exactly one
\* dialog, consumes the fragment of an inline trigger and adds to the trigger
\* a click listener for that dialog, all before any click; a click creates no
\* dialog, alters no node and leaves the triggers as they are.
ClaimC19 ==
    [][/\ (last'.op = "init_each" /\ last'.errs = <<>>) =>
            /\ Created = {last'.dlg}
            /\ triggers'[last'.t].listeners
                    = Append(triggers[last'.t].listeners, last'.dlg)
            /\ last'.type = "inline" =>
                    LET f == GetElementById(doc, last'.id)
                    IN  f # 0 /\ (~doc'[f].attached \/ doc'[f].id = <<>>)
       /\ last'.op = "click" =>
            (Created = {} /\ DocumentKept /\ triggers' = triggers)]_vars

\* init() has run to its end and no trigger has been clicked: a dialog built
\* from #details is in the document, closed, and no element has that id
WitnessC19 ==
    /\ scan = 0 /\ last.op = "init_each" /\ stack = <<>>
    /\ last.type = "inline" /\ last.dlg # 0
    /\ Dialogs(doc) = {last.dlg} /\ ~doc[last.dlg].open
    /\ GetElementById(doc, Details) = 0

-----------------------------------------------------------------------------
(* What clicks, dismissals and open() do to the document *)

\* the ids carried by the elements of document d
DocIds(d) == {d[i].id : i \in {j \in 1..Len(d) : d[j].attached}}

\* C20: a click on a bound trigger shows the dialogs init() created for it,
\* the one dialog when it was bound once, and creates none; clicks and
\* dismissals leave the dialogs and the ids of the document as they are; an
\* open() call that returns a dialog has added exactly that one; and no step
\* takes a dialog out of the document.
ClaimC20 ==
    [][/\ last'.op = "click" =>
            LET listeners == triggers[last'.t].listeners
            IN  /\ \A k \in 1..Len(listeners) : listeners[k] \in Dialogs(doc)
                /\ stack' = listeners
                /\ Len(listeners) = 1 => OpenDialogs(doc') = {listeners[1]}
       /\ last'.op \in {"click", "close"} =>
            /\ Len(doc') = Len(doc)
            /\ Dialogs(doc') = Dialogs(doc)
            /\ DocIds(doc') = DocIds(doc)
       /\ (last'.op = "open" /\ last'.dlg # 0) =>
            (Created = {last'.dlg} /\ Len(doc') = Len(doc) + 1)
       /\ \A i \in Dialogs(doc) : i \in Dialogs(doc') /\ doc'[i].attached]_vars

\* after a dialog made by open() was dismissed, a click has opened the dialog
\* the trigger was bound to, and the document holds these two dialogs
WitnessC20 ==
    /\ last.op = "click"
    /\ triggers[last.t].listeners # <<>> /\ stack = triggers[last.t].listeners
    /\ \E i \in Dialogs(doc) :
            /\ Dialogs(doc) = {i, stack[1]} /\ i # stack[1]
            /\ \A t \in 1..Len(triggers) :
                    \A k \in 1..Len(triggers[t].listeners) : triggers[t].listeners[k] # i

====
